---- MODULE Spec2Model ----
(***************************************************************************)
(* Kuhn Poker rules engine (src/core/game.py, class KuhnPoker) and the     *)
(* environment wrapper around it (src/core/environment.py, KuhnPokerEnv).  *)
(*                                                                         *)
(* Python lists of length two (cards, pot, payoff) are functions over the  *)
(* player indices {0, 1}, so that pot[0], cards[1] read as in the source.  *)
(* The history is a sequence; history[0] of the source is history[1] here. *)
(* Python's None is the empty tuple <<>>.  A str is the sequence of its    *)
(* characters.                                                             *)
(***************************************************************************)
EXTENDS Integers, Sequences, FiniteSets, TLC

\* ---- bounds of the model ------------------------------------------------
\* step() is called with every integer in -1 .. MaxActionValue
MaxActionValue == 3

\* the game tree is enumerated over every action sequence of this length or less
MaxHistoryLen == 4

\* ---- class constants ----------------------------------------------------
PASS == 0
BET == 1
CARDS == <<0, 1, 2>>
CARD_NAMES == <<"J", "Q", "K">>
NUM_PLAYERS == 2
ANTE == 1
BET_SIZE == 1

None == <<>>
Players == 0 .. (NUM_PLAYERS - 1)
ActionValues == (-1) .. MaxActionValue

\* a Python list / tuple of two elements, indexed 0 and 1
Pair(a, b) == [i \in {0, 1} |-> IF i = 0 THEN a ELSE b]

\* the outcomes of random.shuffle(deck): every ordering of the three cards
Shuffles_with_replacement == [1 .. Len(CARDS) -> {CARDS[i] : i \in 1 .. Len(CARDS)}]

Shuffles == {d \in [1 .. Len(CARDS) -> {CARDS[i] : i \in 1 .. Len(CARDS)}] :
               \A i, j \in 1 .. Len(CARDS) : i # j => d[i] # d[j]}

\* ---- the two raise statements of step() ---------------------------------
NoError == [kind |-> "none", msg |-> <<>>]
TerminalError_own_kind == [kind |-> "RuntimeError", msg |-> <<"Game is already terminal">>]

TerminalError == [kind |-> "ValueError", msg |-> <<"Game is already terminal">>]
InvalidActionError(action) == [kind |-> "ValueError", msg |-> <<"Invalid action: ", action>>]

VARIABLES
    cards,           \* self.cards
    history,         \* self.history
    current_player,  \* self.current_player
    pot,             \* self.pot
    is_terminal,     \* self.is_terminal
    payoff,          \* self.payoff
    lastOp,          \* the method called last
    lastArg,         \* its argument (None when it takes none)
    lastRet,         \* the value it returned (None when it raised)
    lastErr,         \* the exception it raised (NoError when it returned)
    pre,             \* the engine's fields when that call was entered
    raised,          \* every exception raised so far, as seen by the caller
    caller,          \* "direct": the engine was called; "env": through KuhnPokerEnv
    envRet           \* what the KuhnPokerEnv method returned (None otherwise)

engine == <<cards, history, current_player, pot, is_terminal, payoff>>
vars == <<cards, history, current_player, pot, is_terminal, payoff,
          lastOp, lastArg, lastRet, lastErr, pre, raised, caller, envRet>>

\* the engine's fields as one record
Engine == [cards |-> cards, history |-> history, current_player |-> current_player,
           pot |-> pot, is_terminal |-> is_terminal, payoff |-> payoff]

\* ---- KuhnPoker._showdown -------------------------------------------------
showdown_flipped(s) ==
    IF s.cards[0] < s.cards[1]
    THEN Pair(s.pot[1], -s.pot[1])
    ELSE Pair(-s.pot[0], s.pot[0])

_showdown(s) ==
    IF s.cards[0] > s.cards[1]
    THEN Pair(s.pot[1], -s.pot[1])
    ELSE Pair(-s.pot[0], s.pot[0])

\* ---- KuhnPoker.step: the three branches on len(self.history) ------------
\* s is the engine after self.history.append(action)
step_len1(s, action) ==
    IF action = BET
    THEN [s EXCEPT !.current_player = 1, !.pot[0] = @ + BET_SIZE]
    ELSE [s EXCEPT !.current_player = 1]

step_len2_naive_fold(s, action) ==
    IF s.history[1] = PASS /\ action = PASS
    THEN LET t == [s EXCEPT !.is_terminal = TRUE] IN [t EXCEPT !.payoff = _showdown(t)]
    ELSE IF s.history[1] = PASS /\ action = BET
    THEN [s EXCEPT !.current_player = 0, !.pot[1] = @ + BET_SIZE]
    ELSE IF s.history[1] = BET /\ action = PASS
    THEN [s EXCEPT !.is_terminal = TRUE, !.payoff = Pair(s.pot[0], -s.pot[1])]
    ELSE IF s.history[1] = BET /\ action = BET
    THEN LET t == [s EXCEPT !.pot[1] = @ + BET_SIZE, !.is_terminal = TRUE]
         IN [t EXCEPT !.payoff = _showdown(t)]
    ELSE s

step_len2_passbet_ends(s, action) ==
    IF s.history[1] = PASS /\ action = PASS
    THEN LET t == [s EXCEPT !.is_terminal = TRUE] IN [t EXCEPT !.payoff = _showdown(t)]
    ELSE IF s.history[1] = PASS /\ action = BET
    THEN LET t == [s EXCEPT !.pot[1] = @ + BET_SIZE, !.is_terminal = TRUE]
         IN [t EXCEPT !.payoff = _showdown(t)]
    ELSE IF s.history[1] = BET /\ action = PASS
    THEN [s EXCEPT !.is_terminal = TRUE, !.payoff = Pair(s.pot[1], -s.pot[1])]
    ELSE IF s.history[1] = BET /\ action = BET
    THEN LET t == [s EXCEPT !.pot[1] = @ + BET_SIZE, !.is_terminal = TRUE]
         IN [t EXCEPT !.payoff = _showdown(t)]
    ELSE s

step_len2_refunds_bet(s, action) ==
    IF s.history[1] = PASS /\ action = PASS
    THEN LET t == [s EXCEPT !.is_terminal = TRUE] IN [t EXCEPT !.payoff = _showdown(t)]
    ELSE IF s.history[1] = PASS /\ action = BET
    THEN [s EXCEPT !.current_player = 0, !.pot[1] = @ + BET_SIZE]
    ELSE IF s.history[1] = BET /\ action = PASS
    THEN [s EXCEPT !.pot[0] = @ - BET_SIZE, !.is_terminal = TRUE,
                   !.payoff = Pair(s.pot[1], -s.pot[1])]
    ELSE IF s.history[1] = BET /\ action = BET
    THEN LET t == [s EXCEPT !.pot[1] = @ + BET_SIZE, !.is_terminal = TRUE]
         IN [t EXCEPT !.payoff = _showdown(t)]
    ELSE s

step_len2_turn_stays(s, action) ==
    IF s.history[1] = PASS /\ action = PASS
    THEN LET t == [s EXCEPT !.is_terminal = TRUE] IN [t EXCEPT !.payoff = _showdown(t)]
    ELSE IF s.history[1] = PASS /\ action = BET
    THEN [s EXCEPT !.pot[1] = @ + BET_SIZE]
    ELSE IF s.history[1] = BET /\ action = PASS
    THEN [s EXCEPT !.is_terminal = TRUE, !.payoff = Pair(s.pot[1], -s.pot[1])]
    ELSE IF s.history[1] = BET /\ action = BET
    THEN LET t == [s EXCEPT !.pot[1] = @ + BET_SIZE, !.is_terminal = TRUE]
         IN [t EXCEPT !.payoff = _showdown(t)]
    ELSE s

step_len2_call_not_counted(s, action) ==
    IF s.history[1] = PASS /\ action = PASS
    THEN LET t == [s EXCEPT !.is_terminal = TRUE] IN [t EXCEPT !.payoff = _showdown(t)]
    ELSE IF s.history[1] = PASS /\ action = BET
    THEN [s EXCEPT !.current_player = 0, !.pot[1] = @ + BET_SIZE]
    ELSE IF s.history[1] = BET /\ action = PASS
    THEN [s EXCEPT !.is_terminal = TRUE, !.payoff = Pair(s.pot[1], -s.pot[1])]
    ELSE IF s.history[1] = BET /\ action = BET
    THEN LET t == [s EXCEPT !.is_terminal = TRUE]
         IN [t EXCEPT !.payoff = _showdown(t)]
    ELSE s

step_len2(s, action) ==
    IF s.history[1] = PASS /\ action = PASS
    THEN LET t == [s EXCEPT !.is_terminal = TRUE] IN [t EXCEPT !.payoff = _showdown(t)]
    ELSE IF s.history[1] = PASS /\ action = BET
    THEN [s EXCEPT !.current_player = 0, !.pot[1] = @ + BET_SIZE]
    ELSE IF s.history[1] = BET /\ action = PASS
    THEN [s EXCEPT !.is_terminal = TRUE, !.payoff = Pair(s.pot[1], -s.pot[1])]
    ELSE IF s.history[1] = BET /\ action = BET
    THEN LET t == [s EXCEPT !.pot[1] = @ + BET_SIZE, !.is_terminal = TRUE]
         IN [t EXCEPT !.payoff = _showdown(t)]
    ELSE s

step_len3_fold_showdown(s, action) ==
    IF action = PASS
    THEN LET t == [s EXCEPT !.is_terminal = TRUE] IN [t EXCEPT !.payoff = _showdown(t)]
    ELSE LET t == [s EXCEPT !.pot[0] = @ + BET_SIZE, !.is_terminal = TRUE]
         IN [t EXCEPT !.payoff = _showdown(t)]

step_len3_no_payoff(s, action) ==
    IF action = PASS
    THEN [s EXCEPT !.is_terminal = TRUE]
    ELSE LET t == [s EXCEPT !.pot[0] = @ + BET_SIZE, !.is_terminal = TRUE]
         IN [t EXCEPT !.payoff = _showdown(t)]

step_len3_advances_turn(s, action) ==
    IF action = PASS
    THEN [s EXCEPT !.current_player = 1, !.is_terminal = TRUE,
                   !.payoff = Pair(-s.pot[0], s.pot[0])]
    ELSE LET t == [s EXCEPT !.current_player = 1, !.pot[0] = @ + BET_SIZE,
                            !.is_terminal = TRUE]
         IN [t EXCEPT !.payoff = _showdown(t)]

step_len3(s, action) ==
    IF action = PASS
    THEN [s EXCEPT !.is_terminal = TRUE, !.payoff = Pair(-s.pot[0], s.pot[0])]
    ELSE LET t == [s EXCEPT !.pot[0] = @ + BET_SIZE, !.is_terminal = TRUE]
         IN [t EXCEPT !.payoff = _showdown(t)]

\* the body of step() after the two checks: append, then dispatch
step_apply_no_append(s, action) ==
    LET a == s
    IN IF Len(a.history) = 1 THEN step_len1(a, action)
       ELSE IF Len(a.history) = 2 THEN step_len2(a, action)
       ELSE IF Len(a.history) = 3 THEN step_len3(a, action)
       ELSE a

step_apply(s, action) ==
    LET a == [s EXCEPT !.history = Append(@, action)]
    IN IF Len(a.history) = 1 THEN step_len1(a, action)
       ELSE IF Len(a.history) = 2 THEN step_len2(a, action)
       ELSE IF Len(a.history) = 3 THEN step_len3(a, action)
       ELSE a

\* the two checks at the head of step(): the exception raised, or NoError
step_raises_action_first(s, action) ==
    IF action \notin {PASS, BET} THEN InvalidActionError(action)
    ELSE IF s.is_terminal THEN TerminalError
    ELSE NoError

step_raises_range(s, action) ==
    IF s.is_terminal THEN TerminalError
    ELSE IF action < PASS \/ action > NUM_PLAYERS THEN InvalidActionError(action)
    ELSE NoError

step_raises(s, action) ==
    IF s.is_terminal THEN TerminalError
    ELSE IF action \notin {PASS, BET} THEN InvalidActionError(action)
    ELSE NoError

\* ---- the queries --------------------------------------------------------
get_valid_actions_by_length(s) == IF Len(s.history) >= 2 THEN <<>> ELSE <<PASS, BET>>

get_valid_actions(s) == IF s.is_terminal THEN <<>> ELSE <<PASS, BET>>

RECURSIVE history_chars(_)
history_chars(h) ==
    IF h = <<>> THEN <<>>
    ELSE <<IF Head(h) = PASS THEN "p" ELSE "b">> \o history_chars(Tail(h))

get_info_set_other_card(s, player) ==
    <<CARD_NAMES[s.cards[1 - player] + 1]>> \o <<"-">> \o history_chars(s.history)

get_info_set_history_first(s, player) ==
    history_chars(s.history) \o <<"-">> \o <<CARD_NAMES[s.cards[player] + 1]>>

get_info_set(s, player) ==
    <<CARD_NAMES[s.cards[player] + 1]>> \o <<"-">> \o history_chars(s.history)

get_history_str(s) == history_chars(s.history)

get_current_player(s) == s.current_player

\* KuhnPokerEnv.get_observation
get_observation(s, player) ==
    [card |-> s.cards[player],
     history |-> s.history,
     info_set |-> get_info_set(s, player),
     valid_actions |-> get_valid_actions(s),
     is_current_player |-> (s.current_player = player)]

\* ---- the state machine --------------------------------------------------
SetEngine(s) ==
    /\ cards' = s.cards
    /\ history' = s.history
    /\ current_player' = s.current_player
    /\ pot' = s.pot
    /\ is_terminal' = s.is_terminal
    /\ payoff' = s.payoff

\* the fields reset() assigns, for the deck order the shuffle produced
reset_state(deck) ==
    [cards |-> Pair(deck[1], deck[2]), history |-> <<>>, current_player |-> 0,
     pot |-> Pair(ANTE, ANTE), is_terminal |-> FALSE, payoff |-> None]

\* KuhnPoker.__init__: the constructor calls reset()
Init ==
    \E deck \in Shuffles :
        /\ cards = reset_state(deck).cards
        /\ history = reset_state(deck).history
        /\ current_player = reset_state(deck).current_player
        /\ pot = reset_state(deck).pot
        /\ is_terminal = reset_state(deck).is_terminal
        /\ payoff = reset_state(deck).payoff
        /\ lastOp = "__init__"
        /\ lastArg = None
        /\ lastRet = None
        /\ lastErr = NoError
        /\ pre = reset_state(deck)
        /\ raised = {}
        /\ caller = "direct"
        /\ envRet = None

reset_keeps_payoff ==
    \E deck \in Shuffles :
        /\ cards' = reset_state(deck).cards
        /\ history' = reset_state(deck).history
        /\ current_player' = reset_state(deck).current_player
        /\ pot' = reset_state(deck).pot
        /\ is_terminal' = reset_state(deck).is_terminal
        /\ payoff' = payoff
        /\ lastOp' = "reset"
        /\ lastArg' = None
        /\ lastRet' = reset_state(deck).cards
        /\ lastErr' = NoError
        /\ pre' = Engine
        /\ UNCHANGED raised
        /\ caller' = "direct"
        /\ envRet' = None

reset ==
    \E deck \in Shuffles :
        /\ SetEngine(reset_state(deck))
        /\ lastOp' = "reset"
        /\ lastArg' = None
        /\ lastRet' = reset_state(deck).cards
        /\ lastErr' = NoError
        /\ pre' = Engine
        /\ UNCHANGED raised
        /\ caller' = "direct"
        /\ envRet' = None

step ==
    \E action \in ActionValues :
        LET err == step_raises(Engine, action)
            s2 == step_apply(Engine, action)
        IN /\ lastOp' = "step"
           /\ lastArg' = <<action>>
           /\ pre' = Engine
           /\ lastErr' = err
           /\ IF err # NoError
              THEN /\ UNCHANGED engine
                   /\ lastRet' = None
                   /\ raised' = raised \cup {err}
              ELSE /\ SetEngine(s2)
                   /\ lastRet' = <<s2.is_terminal, s2.payoff>>
                   /\ UNCHANGED raised
           /\ caller' = "direct"
           /\ envRet' = None

\* a query: returns a value and assigns nothing
Query(op, arg, ret) ==
    /\ lastOp' = op
    /\ lastArg' = arg
    /\ lastRet' = ret
    /\ lastErr' = NoError
    /\ pre' = Engine
    /\ UNCHANGED <<engine, raised>>
    /\ caller' = "direct"
    /\ envRet' = None

valid_actions == Query("get_valid_actions", None, get_valid_actions(Engine))

info_set == \E player \in Players : Query("get_info_set", <<player>>, get_info_set(Engine, player))

current_player_query == Query("get_current_player", None, <<get_current_player(Engine)>>)

history_str == Query("get_history_str", None, get_history_str(Engine))

observation == \E player \in Players : Query("get_observation", <<player>>, get_observation(Engine, player))

\* ---- KuhnPokerEnv ---------------------------------------------------------
\* bool(x) of a list or None, as the conditional expression of line 69 takes it
Truthy(x) == x # None /\ DOMAIN x # {}

\* np.array(payoffs): the array of the list's elements
np_array(l) == [i \in DOMAIN l |-> l[i]]

\* the observation KuhnPokerEnv.reset builds; c is what game.reset() returned
env_reset_obs(s, c) ==
    [cards |-> c,
     current_player |-> <<get_current_player(s)>>,
     history |-> s.history,
     info_set_p0 |-> get_info_set(s, 0),
     info_set_p1 |-> get_info_set(s, 1),
     valid_actions |-> get_valid_actions(s)]

\* the 4-tuple KuhnPokerEnv.step builds; s is the engine after game.step()
\* returned (ret_terminal, payoffs)
env_step_result_keeps_player(s, ret_terminal, payoffs) ==
    <<[cards |-> s.cards,
       current_player |-> <<get_current_player(s)>>,
       history |-> s.history,
       info_set_p0 |-> get_info_set(s, 0),
       info_set_p1 |-> get_info_set(s, 1),
       valid_actions |-> get_valid_actions(s)],
      IF Truthy(payoffs) THEN np_array(payoffs) ELSE None,
      ret_terminal,
      [terminal |-> ret_terminal, history_str |-> get_history_str(s)]>>

env_step_result(s, ret_terminal, payoffs) ==
    <<[cards |-> s.cards,
       current_player |-> IF ~ret_terminal THEN <<get_current_player(s)>> ELSE None,
       history |-> s.history,
       info_set_p0 |-> get_info_set(s, 0),
       info_set_p1 |-> get_info_set(s, 1),
       valid_actions |-> get_valid_actions(s)],
      IF Truthy(payoffs) THEN np_array(payoffs) ELSE None,
      ret_terminal,
      [terminal |-> ret_terminal, history_str |-> get_history_str(s)]>>

\* KuhnPokerEnv.reset
env_reset ==
    \E deck \in Shuffles :
        /\ SetEngine(reset_state(deck))
        /\ lastOp' = "reset"
        /\ lastArg' = None
        /\ lastRet' = reset_state(deck).cards
        /\ lastErr' = NoError
        /\ pre' = Engine
        /\ UNCHANGED raised
        /\ caller' = "env"
        /\ envRet' = env_reset_obs(reset_state(deck), reset_state(deck).cards)

\* KuhnPokerEnv.step: an exception of game.step() leaves the method at once
env_step ==
    \E action \in ActionValues :
        LET err == step_raises(Engine, action)
            s2 == step_apply(Engine, action)
        IN /\ lastOp' = "step"
           /\ lastArg' = <<action>>
           /\ pre' = Engine
           /\ lastErr' = err
           /\ caller' = "env"
           /\ IF err # NoError
              THEN /\ UNCHANGED engine
                   /\ lastRet' = None
                   /\ raised' = raised \cup {err}
                   /\ envRet' = None
              ELSE /\ SetEngine(s2)
                   /\ lastRet' = <<s2.is_terminal, s2.payoff>>
                   /\ UNCHANGED raised
                   /\ envRet' = env_step_result(s2, s2.is_terminal, s2.payoff)

Next ==
    \/ reset
    \/ step
    \/ env_reset
    \/ env_step
    \/ valid_actions
    \/ info_set
    \/ current_player_query
    \/ history_str
    \/ observation

Spec == Init /\ [][Next]_vars

\* one hand: the engine as constructed, then no further reset(); the caller
\* keeps applying legal actions for as long as step() accepts one
HandNext ==
    \/ step
    \/ env_step
    \/ valid_actions
    \/ info_set
    \/ current_player_query
    \/ history_str
    \/ observation

HandSpec == Init /\ [][HandNext]_vars /\ WF_vars(step /\ lastErr' = NoError)

\* ---- the histories of the game tree --------------------------------------
PP == <<PASS, PASS>>
BP == <<BET, PASS>>
BB == <<BET, BET>>
PB == <<PASS, BET>>
PBP == <<PASS, BET, PASS>>
PBB == <<PASS, BET, BET>>
TerminalHistories == {PP, BP, BB, PBP, PBB}
LiveHistories == {<<>>, <<PASS>>, <<BET>>, PB}
ShowdownHistories == {PP, BB, PBB}

\* C1: in every terminal state the payoff pair is populated and
\* payoff[0] + payoff[1] = 0.
C1_ZeroSum ==
    is_terminal => (payoff # None /\ payoff[0] + payoff[1] = 0)

\* a fold after a bet: the pot is uneven (2, 1) when the payoff is computed
C1_Witness == is_terminal /\ payoff # None /\ pot[0] # pot[1]

\* C2: the hand is terminal exactly at PASS-PASS, BET-PASS, BET-BET,
\* PASS-BET-PASS and PASS-BET-BET and live at the empty history, PASS, BET
\* and PASS-BET, for every deal.
C2_TerminalIffHistory ==
    /\ history \in TerminalHistories \cup LiveHistories
    /\ is_terminal <=> history \in TerminalHistories
    /\ ~is_terminal <=> history \in LiveHistories

C2_Witness == is_terminal /\ history = PBP /\ lastOp = "step"

\* C3: at a showdown the holder of the higher card wins the opponent's pot
\* contribution: 1 chip after PASS-PASS, 2 chips after BET-BET and after
\* PASS-BET-BET.
C3_ShowdownPayoff ==
    (is_terminal /\ history \in ShowdownHistories) =>
        LET m == IF history = PP THEN 1 ELSE 2
        IN /\ payoff = (IF cards[0] > cards[1] THEN Pair(pot[1], -pot[1])
                                               ELSE Pair(-pot[0], pot[0]))
           /\ payoff = (IF cards[0] > cards[1] THEN Pair(m, -m) ELSE Pair(-m, m))

C3_Witness == is_terminal /\ history = PBB /\ cards[0] < cards[1] /\ payoff = Pair(-2, 2)

\* C4: a fold is paid whatever the cards: BET-PASS pays (+1, -1) and
\* PASS-BET-PASS pays (-1, +1).
C4_FoldPayoff ==
    /\ (is_terminal /\ history = BP) => (payoff = Pair(1, -1) /\ payoff[0] = pot[1])
    /\ (is_terminal /\ history = PBP) => (payoff = Pair(-1, 1) /\ payoff[1] = pot[0])

\* player 0 folds the higher card
C4_Witness == is_terminal /\ history = PBP /\ cards[0] > cards[1] /\ payoff = Pair(-1, 1)

\* C5: on a terminal hand step() raises the terminal-hand error for every
\* argument and changes no field; a terminal hand is left only by reset().
C5_TerminalRejects ==
    /\ (lastOp = "step" /\ pre.is_terminal) =>
           (lastErr = TerminalError /\ lastRet = None /\ Engine = pre)
    /\ (pre.is_terminal /\ ~is_terminal) => lastOp = "reset"

\* an illegal action value passed to a terminal hand
C5_Witness ==
    /\ lastOp = "step" /\ pre.is_terminal
    /\ lastArg[1] \notin {PASS, BET}
    /\ lastErr = TerminalError

\* C6: on a live hand step() with a value other than PASS or BET raises the
\* invalid-action error and changes no field; the value is not appended.
C6_InvalidActionRejects ==
    (lastOp = "step" /\ ~pre.is_terminal /\ lastArg[1] \notin {PASS, BET}) =>
        /\ lastErr = InvalidActionError(lastArg[1])
        /\ lastRet = None
        /\ Engine = pre
        /\ history = pre.history

\* rejected in the middle of a hand
C6_Witness ==
    /\ lastOp = "step" /\ ~pre.is_terminal
    /\ lastArg = <<2>>
    /\ history = PB
    /\ lastErr = InvalidActionError(2)

\* the rejection of a call on a terminal hand / of an illegal action value
IsTerminalRejection(e) == e.msg = <<"Game is already terminal">>
IsInvalidActionRejection(e) == Len(e.msg) = 2 /\ e.msg[1] = "Invalid action: "

\* C7 as stated: the rejection of a call on a terminal hand and the
\* rejection of an illegal action value are errors of different kinds.
C7_DistinctKinds ==
    \A e1, e2 \in raised :
        (IsTerminalRejection(e1) /\ IsInvalidActionRejection(e2)) => e1.kind # e2.kind

\* C7 amended: both rejections are of the one kind ValueError; they differ
\* in their message only, which tells whether the hand was terminal.
C7_SameKindDistinctMessage ==
    /\ \A e \in raised :
          /\ e.kind = "ValueError"
          /\ IsTerminalRejection(e) # IsInvalidActionRejection(e)
    /\ (lastOp = "step" /\ lastErr # NoError) =>
          /\ lastErr \in raised
          /\ IsTerminalRejection(lastErr) <=> pre.is_terminal
          /\ IsInvalidActionRejection(lastErr) <=> ~pre.is_terminal

\* both rejections have been raised
C7_Witness ==
    \E e1, e2 \in raised : IsTerminalRejection(e1) /\ IsInvalidActionRejection(e2)

\* the engine after reset() dealt c and the actions of h were accepted
RECURSIVE replay(_, _)
replay(s, h) == IF h = <<>> THEN s ELSE replay(step_apply(s, Head(h)), Tail(h))
StateAfter(c, h) == replay([cards |-> c, history |-> <<>>, current_player |-> 0,
                            pot |-> Pair(ANTE, ANTE), is_terminal |-> FALSE,
                            payoff |-> None], h)
CardSet == {CARDS[i] : i \in 1 .. Len(CARDS)}

\* C8: get_info_set(player) is the same in any two reachable states that
\* agree on the player's card and on the history and differ in the
\* opponent's card, before and after the hand is terminal.
C8_InfoSetHidesOpponent ==
    /\ Engine = StateAfter(cards, history)
    /\ \A player \in Players :
          \A c \in CardSet \ {cards[0], cards[1]} :
             LET other == StateAfter([cards EXCEPT ![1 - player] = c], history)
             IN /\ other.cards[player] = cards[player]
                /\ other.cards[1 - player] # cards[1 - player]
                /\ other.history = history
                /\ get_info_set(other, player) = get_info_set(Engine, player)
                /\ get_observation(other, player) = get_observation(Engine, player)
                /\ (lastOp = "get_info_set" /\ lastArg = <<player>>) =>
                       lastRet = get_info_set(other, player)

\* the info set asked for after the hand ended
C8_Witness ==
    /\ lastOp = "get_info_set" /\ lastArg = <<1>>
    /\ is_terminal /\ history = PBB
    /\ lastRet = <<"Q", "-", "p", "b", "b">>

Range(f) == {f[i] : i \in 1 .. Len(f)}

\* C9: get_valid_actions() is empty exactly when the hand is terminal and is
\* {PASS, BET} otherwise, whatever the history and the deal.
C9_ValidActions ==
    /\ (get_valid_actions(Engine) = <<>>) <=> is_terminal
    /\ ~is_terminal => Range(get_valid_actions(Engine)) = {PASS, BET}
    /\ lastOp = "get_valid_actions" =>
          /\ (lastRet = <<>>) <=> is_terminal
          /\ ~is_terminal => Range(lastRet) = {PASS, BET}

\* asked in the one live state of length 2
C9_Witness ==
    /\ lastOp = "get_valid_actions" /\ history = PB
    /\ Range(lastRet) = {PASS, BET}

\* C10: reset() never fails and, from any state, leaves an empty history,
\* pot (1, 1), a live hand, no payoff and player 0 to act; it returns the
\* pair of cards it stored.
C10_ResetClears ==
    /\ ENABLED reset
    /\ lastOp = "reset" =>
          /\ history = <<>>
          /\ pot = Pair(1, 1)
          /\ is_terminal = FALSE
          /\ payoff = None
          /\ current_player = 0
          /\ lastErr = NoError
          /\ lastRet = cards
          /\ Engine = StateAfter(cards, <<>>)

\* reset() of a hand that ended with uneven pots, a payoff and player 1
C10_Witness ==
    /\ lastOp = "reset"
    /\ pre.is_terminal /\ pre.history = BP /\ pre.payoff # None
    /\ pre.current_player = 1
    /\ pre.cards # cards

\* C11: the two dealt cards are always distinct ranks of {J, Q, K}; reset()
\* can produce each of the 6 ordered pairs of distinct cards; step(),
\* accepted or rejected, never changes the deal.
C11_DealDistinct ==
    /\ cards[0] \in CardSet /\ cards[1] \in CardSet
    /\ cards[0] # cards[1]
    /\ \A c0, c1 \in CardSet :
          (c0 # c1) <=> ENABLED (reset /\ cards' = Pair(c0, c1))
    /\ lastOp = "step" => cards = pre.cards

\* a deal that went through an accepted and ended hand unchanged
C11_Witness ==
    /\ lastOp = "step" /\ lastErr = NoError /\ is_terminal
    /\ cards = Pair(2, 0) /\ pre.cards = Pair(2, 0)

\* C12: step() never decreases a pot entry; a pot entry becomes smaller
\* only through reset().
C12_PotMonotone ==
    \A i \in Players :
        /\ lastOp = "step" => pot[i] >= pre.pot[i]
        /\ pot[i] < pre.pot[i] => lastOp = "reset"

\* the call that ends PASS-BET-BET raises player 0's contribution
C12_Witness ==
    /\ lastOp = "step" /\ history = PBB
    /\ pre.pot = Pair(1, 2) /\ pot = Pair(2, 2)

\* C13: the history has 0 to 3 actions, a history of 3 actions is terminal,
\* no hand is terminal before 2 actions, and a hand in which legal actions
\* keep being applied eventually becomes terminal.
C13_EndsWithinThree ==
    /\ [](/\ Len(history) \in 0 .. 3
          /\ Len(history) = 3 => is_terminal
          /\ is_terminal => Len(history) >= 2)
    /\ <>is_terminal

\* a hand that took all three actions
C13_Witness == is_terminal /\ Len(history) = 3 /\ lastOp = "step" /\ ~pre.is_terminal

\* step() returned, called directly or through KuhnPokerEnv.step
StepAccepted == lastOp = "step" /\ lastErr = NoError

\* C14: the stored payoff is absent exactly while the hand is live, and an
\* accepted step() returns (terminal flag after the action, stored payoff):
\* (false, none) when the hand continues, (true, payoff pair) when it ends.
C14_PayoffIffTerminal ==
    /\ (payoff = None) <=> ~is_terminal
    /\ StepAccepted =>
          /\ lastRet = <<is_terminal, payoff>>
          /\ ~is_terminal => lastRet = <<FALSE, None>>
          /\ is_terminal => (lastRet[1] = TRUE /\ DOMAIN lastRet[2] = Players)

\* the fold that ends PASS-BET-PASS returns the payoff pair
C14_Witness ==
    /\ StepAccepted /\ history = PBP
    /\ lastRet = <<TRUE, Pair(-1, 1)>>

\* C15: while the hand is live the player to act is the history length
\* mod 2: player 0 at the empty history, player 1 after PASS and after BET,
\* player 0 after PASS-BET.
C15_TurnByHistory ==
    /\ ~is_terminal =>
          /\ current_player = Len(history) % 2
          /\ history = <<>> => current_player = 0
          /\ history \in {<<PASS>>, <<BET>>} => current_player = 1
          /\ history = PB => current_player = 0
    /\ (lastOp = "get_current_player" /\ ~is_terminal) =>
          lastRet = <<Len(history) % 2>>

\* the turn has come back to player 0
C15_Witness ==
    /\ lastOp = "get_current_player" /\ history = PB
    /\ lastRet = <<0>>

\* ---- the game tree, enumerated from step() ---------------------------------
Front(h) == SubSeq(h, 1, Len(h) - 1)
ActionSeqs == UNION {[1 .. n -> {PASS, BET}] : n \in 0 .. MaxHistoryLen}

\* step() accepts the actions of h one after the other, dealt c
RECURSIVE Playable(_, _)
Playable(c, h) ==
    h = <<>> \/ (Playable(c, Front(h)) /\ ~StateAfter(c, Front(h)).is_terminal)

Deals == {Pair(c0, c1) : c0, c1 \in CardSet} \ {Pair(c0, c0) : c0 \in CardSet}

\* the terminal histories; a leaf is a fold when it pays the same under
\* every deal and a showdown when the cards decide its payoff
Leaves == {h \in ActionSeqs : \A c \in Deals : Playable(c, h) /\ StateAfter(c, h).is_terminal}
FoldLeaves == {h \in Leaves : \A c, d \in Deals : StateAfter(c, h).payoff = StateAfter(d, h).payoff}
ShowdownLeaves == {h \in Leaves : \E c, d \in Deals : StateAfter(c, h).payoff # StateAfter(d, h).payoff}

\* C16 as stated: 5 terminal leaves are reached by a fold and 3 by a
\* showdown (PASS-PASS, BET-BET, PASS-BET-BET), 8 terminal histories in all.
C16_EightLeaves ==
    /\ Cardinality(FoldLeaves) = 5
    /\ ShowdownLeaves = {PP, BB, PBB}
    /\ Cardinality(Leaves) = 8
    /\ is_terminal => history \in Leaves

\* C16 amended: 2 terminal leaves are reached by a fold (BET-PASS and
\* PASS-BET-PASS) and 3 by a showdown (PASS-PASS, BET-BET, PASS-BET-BET),
\* 5 terminal histories in all; every terminal state is at one of them.
C16_FiveLeaves ==
    /\ FoldLeaves = {BP, PBP}
    /\ ShowdownLeaves = {PP, BB, PBB}
    /\ Cardinality(Leaves) = 5
    /\ Leaves = FoldLeaves \cup ShowdownLeaves
    /\ is_terminal => history \in Leaves
    /\ (is_terminal /\ history \in FoldLeaves) => payoff \in {Pair(1, -1), Pair(-1, 1)}

\* a hand ended by a fold
C16_Witness == is_terminal /\ history \in FoldLeaves /\ lastOp = "step" /\ ~pre.is_terminal

\* the symbol of a card and of an action, as the claim names them
CardSymbol(c) == CASE c = 0 -> "J" [] c = 1 -> "Q" [] c = 2 -> "K"
ActionSymbol(a) == CASE a = PASS -> "p" [] a = BET -> "b"
Rendered(h) == [i \in 1 .. Len(h) |-> ActionSymbol(h[i])]

\* C17: get_info_set(player) is the player's own card symbol, then '-',
\* then one symbol per action of the history in order ('p' for PASS, 'b' for
\* BET); the history part is what get_history_str() returns; the call
\* changes no field of the engine.
C17_InfoSetFormat ==
    /\ get_history_str(Engine) = Rendered(history)
    /\ \A player \in Players :
          /\ get_info_set(Engine, player) =
                <<CardSymbol(cards[player]), "-">> \o Rendered(history)
          /\ SubSeq(get_info_set(Engine, player), 3, 2 + Len(history)) =
                get_history_str(Engine)
          /\ (cards[player] = 2 /\ history = PB) =>
                get_info_set(Engine, player) = <<"K", "-", "p", "b">>
    /\ lastOp = "get_info_set" =>
          /\ lastRet = <<CardSymbol(cards[lastArg[1]]), "-">> \o Rendered(history)
          /\ Engine = pre
          /\ lastErr = NoError
    /\ lastOp = "get_history_str" => (lastRet = Rendered(history) /\ Engine = pre)

\* the example of the claim: the king after PASS-BET
C17_Witness ==
    /\ lastOp = "get_info_set" /\ lastArg = <<0>>
    /\ cards[0] = 2 /\ history = PB
    /\ lastRet = <<"K", "-", "p", "b">>

\* C18: KuhnPokerEnv.step returns (observation, rewards, done, info) in step
\* with the engine after the action: done and info['terminal'] are the
\* engine's terminal flag, rewards is None exactly when the hand is live and
\* the engine's payoff otherwise, the observation's current_player is None
\* when terminal and its valid_actions is empty exactly when done; a
\* rejected action propagates the engine's error and changes no field.
C18_AdapterStep ==
    (caller = "env" /\ lastOp = "step") =>
        IF lastErr = NoError
        THEN LET obs == envRet[1]
                 rewards == envRet[2]
                 done == envRet[3]
                 info == envRet[4]
             IN /\ Len(envRet) = 4
                /\ done = is_terminal
                /\ info.terminal = is_terminal
                /\ (rewards = None) <=> ~is_terminal
                /\ is_terminal => rewards = payoff
                /\ is_terminal => obs.current_player = None
                /\ ~is_terminal => obs.current_player = <<current_player>>
                /\ (obs.valid_actions = <<>>) <=> done
                /\ obs.cards = cards
                /\ obs.history = history
                /\ info.history_str = Rendered(history)
        ELSE /\ envRet = None
             /\ lastRet = None
             /\ lastErr \in {TerminalError, InvalidActionError(lastArg[1])}
             /\ lastErr \in raised
             /\ Engine = pre

\* the adapter reports the end of a hand
C18_Witness ==
    /\ caller = "env" /\ StepAccepted /\ is_terminal
    /\ history = BB
    /\ envRet[2] = payoff
    /\ envRet[3] = TRUE
    /\ envRet[1].current_player = None
    /\ envRet[1].valid_actions = <<>>

\* the player who made the k-th action of a hand (k = 1, 2, 3)
Actor(k) == (k - 1) % 2

\* C19: the step() that ends a hand leaves current_player as it was: it
\* still names the player who made the final action, player 1 after
\* PASS-PASS, BET-PASS and BET-BET, player 0 after PASS-BET-PASS and
\* PASS-BET-BET.
C19_TerminalKeepsPlayer ==
    /\ is_terminal =>
          /\ current_player = Actor(Len(history))
          /\ history \in {PP, BP, BB} => current_player = 1
          /\ history \in {PBP, PBB} => current_player = 0
    /\ (StepAccepted /\ is_terminal) => current_player = pre.current_player

\* player 0 ends the hand and is still the current player
C19_Witness ==
    /\ StepAccepted /\ is_terminal /\ history = PBB
    /\ pre.current_player = 0 /\ current_player = 0

\* the BETs player i has made in the history h
BetsOf(i, h) == Cardinality({k \in 1 .. Len(h) : h[k] = BET /\ Actor(k) = i})

\* C20: each pot entry is the ante plus one chip per BET of that player in
\* the current history, so it is 1 or 2 and the total never exceeds 4.
C20_PotCountsBets ==
    /\ \A i \in Players :
          /\ pot[i] = ANTE + BET_SIZE * BetsOf(i, history)
          /\ pot[i] \in {1, 2}
    /\ pot[0] + pot[1] <= 4

\* both players have bet: the full pot of 4
C20_Witness == history = BB /\ pot = Pair(2, 2) /\ pot[0] + pot[1] = 4

====
